---- MODULE Spec2Model ----
(***************************************************************************)
(* The "cafe" resource of the provider: the Configure hook and the four    *)
(* lifecycle hooks Create / Read / Update / Delete, as written in the two  *)
(* drafts of the resource the repository holds:                            *)
(*                                                                         *)
(*   draft "A"  src/unnamed/part_000                  (id is a string)     *)
(*   draft "B"  src/internal/provider/cafe_resource.go (id is an Int64)    *)
(*                                                                         *)
(* Both files declare the same type in the same package, so a build holds  *)
(* exactly one of them: `draft` is chosen in Init and never changes.       *)
(*                                                                         *)
(* The remote HashiCups client and the plugin framework are not part of    *)
(* the repository.  The remote system is a store of cafes keyed by an      *)
(* integer identifier; every client call may fail.  The framework's        *)
(* decoding of a plan or a state into the Go model (req.Plan.Get,          *)
(* req.State.Get) may fail; resp.State.Set of a fully known model does     *)
(* not.  The hooks are only run on a resource whose client is configured.  *)
(*                                                                         *)
(* Texts are the naturals: 0 is the empty string "", k > 0 a non-empty     *)
(* string, different numbers different strings.  Identifier strings are    *)
(* sequences of one-character strings, so that strconv.Atoi and            *)
(* strconv.Itoa are computed and not assumed to be inverse.                *)
(***************************************************************************)
EXTENDS Integers, Sequences, FiniteSets, TLC

\* Bounds of the model.
MaxCafes == 2
MaxPlans == 2

VARIABLES draft, client, remote, nextID, state, last

vars == <<draft, client, remote, nextID, state, last>>

----------------------------------------------------------------------------
\* Texts and entities

AttrNames == {"Name", "Address", "Description", "Image"}

\* The k-th sample of user-supplied attributes: four different non-empty texts.
SampleBody(k) ==
  [Name |-> 4 * k - 3, Address |-> 4 * k - 2, Description |-> 4 * k - 1, Image |-> 4 * k]

\* The Go zero value of the four string fields.
ZeroBody == [Name |-> 0, Address |-> 0, Description |-> 0, Image |-> 0]

Bodies == {ZeroBody} \cup {SampleBody(k) : k \in 1..MaxPlans}

BodyOf(r) == [a \in AttrNames |-> r[a]]

\* hashicups.Cafe
Cafe(id, body) ==
  [ID |-> id, Name |-> body.Name, Address |-> body.Address,
   Description |-> body.Description, Image |-> body.Image]

\* cafeResourceModel
cafeResourceModel(id, body) ==
  [ID |-> id, Name |-> body.Name, Address |-> body.Address,
   Description |-> body.Description, Image |-> body.Image]

----------------------------------------------------------------------------
\* strconv

DigitSeq == <<"0", "1", "2", "3", "4", "5", "6", "7", "8", "9">>
Digits == {DigitSeq[i] : i \in 1..Len(DigitSeq)}
DigitVal(c) ==
  IF c \in Digits THEN (CHOOSE i \in 1..Len(DigitSeq) : DigitSeq[i] = c) - 1 ELSE 0

RECURSIVE DigitsVal(_)
DigitsVal(s) ==
  IF s = <<>> THEN 0
  ELSE 10 * DigitsVal(SubSeq(s, 1, Len(s) - 1)) + DigitVal(s[Len(s)])

Unsigned(s) == IF Len(s) > 0 /\ s[1] \in {"+", "-"} THEN Tail(s) ELSE s

\* A parse that takes any non-empty text for an integer.
AtoiOk_Lenient(s) == Len(s) > 0

\* strconv.Atoi returns a nil error: an optional sign, then one digit or more.
AtoiOk(s) ==
  /\ Len(Unsigned(s)) > 0
  /\ \A i \in 1..Len(Unsigned(s)) : Unsigned(s)[i] \in Digits

\* strconv.Atoi's value: 0 beside a non-nil error.
Atoi(s) ==
  IF ~AtoiOk(s) THEN 0
  ELSE IF s[1] = "-" THEN 0 - DigitsVal(Unsigned(s))
  ELSE DigitsVal(Unsigned(s))

RECURSIVE ItoaNat(_)
ItoaNat(n) ==
  IF n < 10 THEN <<DigitSeq[n + 1]>>
  ELSE ItoaNat(n \div 10) \o <<DigitSeq[(n % 10) + 1]>>

\* strconv.Itoa
Itoa(n) == IF n < 0 THEN <<"-">> \o ItoaNat(0 - n) ELSE ItoaNat(n)

\* types.Int64.String() of a known value: the same decimal text.
Int64String(n) == Itoa(n)

----------------------------------------------------------------------------
\* The remote system, as the client library presents it

\* The entities the remote system holds under the identifier a request names:
\* the server parses the text as the hooks do.  (A server that rejects a
\* non-canonical text is the call failing, which every call may.)
RemoteByID(rem, idStr) == {c \in rem : AtoiOk(idStr) /\ Atoi(idStr) = c.ID}

\* The order in which the remote system lists its entities: by identifier.
RECURSIVE RemoteList(_)
RemoteList(rem) ==
  IF rem = {} THEN <<>>
  ELSE LET c == CHOOSE x \in rem : \A y \in rem : x.ID <= y.ID
       IN <<c>> \o RemoteList(rem \ {c})

\* The entity the remote system stores for a creation request: the first
\* entity sent, under a fresh identifier; `dflt` when the request is empty.
RemoteCreated(id, items, dflt) ==
  IF Len(items) > 0 THEN Cafe(id, BodyOf(items[1])) ELSE Cafe(id, dflt)

\* The remote store after an update request for idStr: the first entity
\* sent replaces the attributes; an empty request changes nothing.
RemoteUpdated(rem, idStr, items) ==
  IF Len(items) = 0 THEN rem
  ELSE (rem \ RemoteByID(rem, idStr))
         \cup {Cafe(c.ID, BodyOf(items[1])) : c \in RemoteByID(rem, idStr)}

\* What an update call may return: the updated entity, or only its identifier
\* with the attributes not populated.
UpdateResponses(rem, idStr, items) ==
  LET now == RemoteByID(RemoteUpdated(rem, idStr, items), idStr)
  IN now \cup {Cafe(c.ID, ZeroBody) : c \in now}

RemoteDeleted(rem, idStr) == rem \ RemoteByID(rem, idStr)

----------------------------------------------------------------------------
\* Values of the state

NoClient == "nil"
Clients == {"client1", "client2"}
WrongType == "notAClient"
ProviderDatas == {NoClient, WrongType} \cup Clients

NoState == [form |-> "none"]
ResourceState(m) == [form |-> "resource", model |-> m]
ListState(ms) == [form |-> "list", Cafe |-> ms]

Diag(summary, detail) == [summary |-> summary, detail |-> detail]

\* A diagnostic of the framework's own: a plan or state that does not decode.
DecodeDiag == Diag("Value Conversion Error", "framework")

Call(fn, id, items, ok, ret) ==
  [fn |-> fn, id |-> id, items |-> items, ok |-> ok, ret |-> ret]

\* The record of one hook call: the request (the provider data, or the model
\* the plan or state holds) and whether the framework decoded it, the
\* diagnostics of the response, the client calls made in order, and whether
\* resp.State.Set was reached.
Response(op, req, decodeOk, diags, calls, wrote) ==
  [op |-> op, req |-> req, decodeOk |-> decodeOk, diags |-> diags,
   calls |-> calls, wrote |-> wrote]

\* Identifier strings a state file may hold before any hook has run.
StoredIDs == {<<>>, <<"x">>, <<"0", "1">>, <<"1">>, <<"-", "1">>}

InitStates(d) ==
  {NoState} \cup
  IF d = "A"
  THEN {ResourceState(cafeResourceModel(s, SampleBody(1))) : s \in StoredIDs}
  ELSE {ResourceState(cafeResourceModel(i, SampleBody(1))) : i \in 1..(MaxCafes + 1)}

Init ==
  /\ draft \in {"A", "B"}
  /\ client = NoClient
  /\ \E n \in 0..1 :
       /\ remote = {Cafe(i, SampleBody(MaxPlans)) : i \in 1..n}
       /\ nextID = n + 1
  /\ state \in InitStates(draft)
  /\ last = Response("none", NoState, TRUE, <<>>, <<>>, FALSE)

----------------------------------------------------------------------------
\* Configure

ConfigureDiags(providerData) ==
  IF providerData = NoClient THEN <<>>
  ELSE IF providerData \notin Clients
  THEN <<Diag("Unexpected Data Source Configure Type", "Expected *hashicups.Client")>>
  ELSE <<>>

\* A Configure that clears the handle when the provider data is of another type.
ConfigureClient_Reset(cur, providerData) ==
  IF providerData = NoClient THEN cur
  ELSE IF providerData \notin Clients THEN NoClient
  ELSE providerData

ConfigureClient(cur, providerData) ==
  IF providerData = NoClient THEN cur
  ELSE IF providerData \notin Clients THEN cur
  ELSE providerData

Configure ==
  \E providerData \in ProviderDatas :
    /\ client' = ConfigureClient(client, providerData)
    /\ last' = Response("Configure", providerData, TRUE, ConfigureDiags(providerData), <<>>,
                       FALSE)
    /\ UNCHANGED <<draft, remote, nextID, state>>

\* The hooks run on a resource whose client Configure has set.
Configured == client # NoClient

NoCafes == <<>>

\* What a hook leaves behind when it returns early: the diagnostics, the
\* client calls made so far, and resp.State as it was.
Failed(op, req, diags, calls) ==
  /\ last' = Response(op, req, TRUE, diags, calls, FALSE)
  /\ state' = state

\* The same when the plan or state does not decode: the framework's diagnostic.
FailedDecode(op, req) ==
  /\ last' = Response(op, req, FALSE, <<DecodeDiag>>, <<>>, FALSE)
  /\ state' = state

\* resp.State.Set(ctx, model), then the hook returns.
Succeeded(op, req, calls, newState) ==
  /\ last' = Response(op, req, TRUE, <<>>, calls, TRUE)
  /\ state' = newState

----------------------------------------------------------------------------
\* Draft A: src/unnamed/part_000

CreateErrorDiags ==
  <<Diag("Error creating cafe", "Could not create cafe, unexpected error: ")>>

ConversionDiags ==
  <<Diag("Error Converting Cafe ID", "Could not convert cafe ID to integer: ")>>

ReadErrorDiagsA == <<Diag("Unable to Read HashiCups Cafe", "err")>>

\* A zero-result branch that returns without a diagnostic.
NotFoundDiags_Silent == <<>>

NotFoundDiags == <<Diag("Cafe Not Found", "No cafe found with the given ID")>>

UpdateErrorDiags ==
  <<Diag("Error Updating HashiCups Cafe", "Could not update cafe, unexpected error: ")>>

DeleteConversionDiags ==
  <<Diag("Error Deleting HashiCups Cafe", "Could not convert cafe ID to integer: ")>>

DeleteErrorDiags ==
  <<Diag("Error Deleting HashiCups Cafe", "Could not delete cafe, unexpected error: ")>>

\* The creation request: the plan's four attributes, ID left at its zero value.
CreateRequestA(plan) == <<Cafe(0, BodyOf(plan))>>

\* A Create that never copies the assigned identifier into the model.
CreatedModelA_KeepPlanID(plan, createdCafe) ==
  cafeResourceModel(plan.ID, BodyOf(createdCafe))

\* The model Create sets as the state.
CreatedModelA(plan, createdCafe) ==
  cafeResourceModel(Itoa(createdCafe.ID), BodyOf(createdCafe))

CreateA ==
  /\ draft = "A" /\ Configured /\ state = NoState
  /\ \E body \in Bodies, decodeOk \in BOOLEAN, err \in BOOLEAN :
       LET plan == cafeResourceModel(<<>>, body)
           items == CreateRequestA(plan)
           createdCafe == RemoteCreated(nextID, items, ZeroBody)
       IN IF ~decodeOk
          THEN /\ FailedDecode("Create", plan)
               /\ UNCHANGED <<remote, nextID>>
          ELSE IF err \/ nextID > MaxCafes
          THEN /\ Failed("Create", plan, CreateErrorDiags,
                         <<Call("CreateCafe", <<>>, items, FALSE, NoCafes)>>)
               /\ UNCHANGED <<remote, nextID>>
          ELSE /\ remote' = remote \cup {createdCafe}
               /\ nextID' = nextID + 1
               /\ Succeeded("Create", plan,
                            <<Call("CreateCafe", <<>>, items, TRUE, <<createdCafe>>)>>,
                            ResourceState(CreatedModelA(plan, createdCafe)))
  /\ UNCHANGED <<draft, client>>

\* The model Read sets as the state: every attribute from cafes[0].
ReadModelA(cur, cafe) == cafeResourceModel(Itoa(cafe.ID), BodyOf(cafe))

ReadA ==
  /\ draft = "A" /\ Configured /\ state # NoState
  /\ \E decodeOk \in BOOLEAN, err \in BOOLEAN :
       LET cur == state.model
           idStr == Itoa(Atoi(cur.ID))
           cafes == RemoteList(RemoteByID(remote, idStr))
       IN IF ~decodeOk
          THEN FailedDecode("Read", cur)
          ELSE IF ~AtoiOk(cur.ID)
          THEN Failed("Read", cur, ConversionDiags, <<>>)
          ELSE IF err
          THEN Failed("Read", cur, ReadErrorDiagsA,
                      <<Call("GetCafe", idStr, NoCafes, FALSE, NoCafes)>>)
          ELSE IF Len(cafes) = 0
          THEN Failed("Read", cur, NotFoundDiags,
                      <<Call("GetCafe", idStr, NoCafes, TRUE, cafes)>>)
          ELSE Succeeded("Read", cur, <<Call("GetCafe", idStr, NoCafes, TRUE, cafes)>>,
                         ResourceState(ReadModelA(cur, cafes[1])))
  /\ UNCHANGED <<draft, client, remote, nextID>>

\* The update request: the parsed identifier and the plan's four attributes.
UpdateRequestA(plan) == <<Cafe(Atoi(plan.ID), BodyOf(plan))>>

\* The model Update sets as the state: every attribute from the update response.
UpdatedModelA(plan, updatedCafe) ==
  cafeResourceModel(Itoa(updatedCafe.ID), BodyOf(updatedCafe))

UpdateA ==
  /\ draft = "A" /\ Configured /\ state # NoState
  /\ \E body \in Bodies, decodeOk \in BOOLEAN, err \in BOOLEAN :
       LET plan == cafeResourceModel(state.model.ID, body)
           items == UpdateRequestA(plan)
       IN IF ~decodeOk
          THEN /\ FailedDecode("Update", plan)
               /\ UNCHANGED remote
          ELSE IF ~AtoiOk(plan.ID)
          THEN /\ Failed("Update", plan, ConversionDiags, <<>>)
               /\ UNCHANGED remote
          ELSE IF err \/ RemoteByID(remote, plan.ID) = {}
          THEN /\ Failed("Update", plan, UpdateErrorDiags,
                         <<Call("UpdateCafe", plan.ID, items, FALSE, NoCafes)>>)
               /\ UNCHANGED remote
          ELSE \E updatedCafe \in UpdateResponses(remote, plan.ID, items) :
                 /\ remote' = RemoteUpdated(remote, plan.ID, items)
                 /\ Succeeded("Update", plan,
                              <<Call("UpdateCafe", plan.ID, items, TRUE, <<updatedCafe>>)>>,
                              ResourceState(UpdatedModelA(plan, updatedCafe)))
  /\ UNCHANGED <<draft, client, nextID>>

DeleteA ==
  /\ draft = "A" /\ Configured /\ state # NoState
  /\ \E decodeOk \in BOOLEAN, err \in BOOLEAN :
       LET cur == state.model
           idStr == Itoa(Atoi(cur.ID))
       IN IF ~decodeOk
          THEN /\ FailedDecode("Delete", cur)
               /\ UNCHANGED remote
          ELSE IF ~AtoiOk(cur.ID)
          THEN /\ Failed("Delete", cur, DeleteConversionDiags, <<>>)
               /\ UNCHANGED remote
          ELSE IF err
          THEN /\ Failed("Delete", cur, DeleteErrorDiags,
                         <<Call("DeleteCafe", idStr, NoCafes, FALSE, NoCafes)>>)
               /\ UNCHANGED remote
          ELSE /\ remote' = RemoteDeleted(remote, idStr)
               /\ last' = Response("Delete", cur, TRUE, <<>>,
                                   <<Call("DeleteCafe", idStr, NoCafes, TRUE, NoCafes)>>, FALSE)
               /\ state' = state
  /\ UNCHANGED <<draft, client, nextID>>

----------------------------------------------------------------------------
\* Draft B: src/internal/provider/cafe_resource.go

ReadErrorDiagsB == <<Diag("Unable to Read HashiCups Cafes", "err")>>

UpdateReadErrorDiags ==
  <<Diag("Error Reading HashiCups Cafe", "Could not read HashiCups ocaferder ID ")>>

\* The creation request: `var items []hashicups.Cafe`, never appended to.
CreateRequestB(plan) == <<>>

CreatedModelB(plan, cafe) == cafeResourceModel(cafe.ID, BodyOf(cafe))

CreateB ==
  /\ draft = "B" /\ Configured /\ state = NoState
  /\ \E body \in Bodies, decodeOk \in BOOLEAN, err \in BOOLEAN, dflt \in Bodies :
       LET plan == cafeResourceModel(0, body)
           items == CreateRequestB(plan)
           cafe == RemoteCreated(nextID, items, dflt)
       IN IF ~decodeOk
          THEN /\ FailedDecode("Create", plan)
               /\ UNCHANGED <<remote, nextID>>
          ELSE IF err \/ nextID > MaxCafes
          THEN /\ Failed("Create", plan, CreateErrorDiags,
                         <<Call("CreateCafe", <<>>, items, FALSE, NoCafes)>>)
               /\ UNCHANGED <<remote, nextID>>
          ELSE /\ remote' = remote \cup {cafe}
               /\ nextID' = nextID + 1
               /\ Succeeded("Create", plan,
                            <<Call("CreateCafe", <<>>, items, TRUE, <<cafe>>)>>,
                            ResourceState(CreatedModelB(plan, cafe)))
  /\ UNCHANGED <<draft, client>>

\* The cafeDataSourceModel Read sets as the state: one entry for every cafe
\* the remote system lists.
ReadModelB(cafes) ==
  [i \in 1..Len(cafes) |-> cafeResourceModel(cafes[i].ID, BodyOf(cafes[i]))]

ReadB ==
  /\ draft = "B" /\ Configured /\ state # NoState
  /\ \E err \in BOOLEAN :
       LET cur == IF state.form = "resource" THEN state.model ELSE NoState
           cafes == RemoteList(remote)
       IN IF err
          THEN Failed("Read", cur, ReadErrorDiagsB,
                      <<Call("GetCafes", <<>>, NoCafes, FALSE, NoCafes)>>)
          ELSE Succeeded("Read", cur, <<Call("GetCafes", <<>>, NoCafes, TRUE, cafes)>>,
                         ListState(ReadModelB(cafes)))
  /\ UNCHANGED <<draft, client, remote, nextID>>

\* A state that holds the resource's own attributes decodes into the model,
\* or not; one that holds a list of cafes does not.
Decodes == IF state.form = "resource" THEN BOOLEAN ELSE {FALSE}

\* The update request: `var hashicupsItems []hashicups.Cafe`, never appended to.
UpdateRequestB(plan) == <<>>

\* The model Update sets as the state: the plan, its four attributes from the
\* follow-up read.
UpdatedModelB(plan, cafe) == cafeResourceModel(plan.ID, BodyOf(cafe))

UpdateB ==
  /\ draft = "B" /\ Configured /\ state # NoState
  /\ \E body \in Bodies, decodeOk \in Decodes, err \in BOOLEAN, readErr \in BOOLEAN :
       LET plan == IF decodeOk THEN cafeResourceModel(state.model.ID, body) ELSE NoState
           idStr == IF decodeOk THEN Int64String(plan.ID) ELSE <<>>
           items == UpdateRequestB(plan)
           update == Call("UpdateCafe", idStr, items, TRUE, NoCafes)
       IN IF ~decodeOk
          THEN /\ FailedDecode("Update", plan)
               /\ UNCHANGED remote
          ELSE IF err \/ RemoteByID(remote, idStr) = {}
          THEN /\ Failed("Update", plan, UpdateErrorDiags,
                         <<Call("UpdateCafe", idStr, items, FALSE, NoCafes)>>)
               /\ UNCHANGED remote
          ELSE /\ remote' = RemoteUpdated(remote, idStr, items)
               /\ IF readErr
                  THEN Failed("Update", plan, UpdateReadErrorDiags,
                              <<update, Call("GetCafe", idStr, NoCafes, FALSE, NoCafes)>>)
                  ELSE \E cafe \in RemoteByID(remote', idStr) :
                         Succeeded("Update", plan,
                                   <<update, Call("GetCafe", idStr, NoCafes, TRUE, <<cafe>>)>>,
                                   ResourceState(UpdatedModelB(plan, cafe)))
  /\ UNCHANGED <<draft, client, nextID>>

DeleteB ==
  /\ draft = "B" /\ Configured /\ state # NoState
  /\ \E decodeOk \in Decodes, err \in BOOLEAN :
       LET cur == IF decodeOk THEN state.model ELSE NoState
           idStr == IF decodeOk THEN Int64String(cur.ID) ELSE <<>>
       IN IF ~decodeOk
          THEN /\ FailedDecode("Delete", cur)
               /\ UNCHANGED remote
          ELSE IF err
          THEN /\ Failed("Delete", cur, DeleteErrorDiags,
                         <<Call("DeleteCafe", idStr, NoCafes, FALSE, NoCafes)>>)
               /\ UNCHANGED remote
          ELSE /\ remote' = RemoteDeleted(remote, idStr)
               /\ last' = Response("Delete", cur, TRUE, <<>>,
                                   <<Call("DeleteCafe", idStr, NoCafes, TRUE, NoCafes)>>, FALSE)
               /\ state' = state
  /\ UNCHANGED <<draft, client, nextID>>

----------------------------------------------------------------------------
\* The orchestrator drops the record of a resource whose Delete returned no error.
Discard ==
  /\ last.op = "Delete" /\ last.diags = <<>> /\ state # NoState
  /\ state' = NoState
  /\ UNCHANGED <<draft, client, remote, nextID, last>>

Next ==
  \/ Configure
  \/ CreateA \/ ReadA \/ UpdateA \/ DeleteA
  \/ CreateB \/ ReadB \/ UpdateB \/ DeleteB
  \/ Discard

Spec == Init /\ [][Next]_vars

----------------------------------------------------------------------------
\* Vocabulary of the properties

Hooks == {"Create", "Read", "Update", "Delete"}

\* The text is a decimal integer: an optional sign, then one digit or more.
IsDecimalInteger(s) ==
  \E n \in 0..1 :
    /\ n < Len(s)
    /\ n = 1 => s[1] \in {"+", "-"}
    /\ \A i \in (n + 1)..Len(s) : s[i] \in {"0", "1", "2", "3", "4", "5", "6", "7", "8", "9"}

\* The identifier a model holds, as decimal text.
IdText(m) == IF draft = "A" THEN m.ID ELSE Int64String(m.ID)

\* The request of the call was decoded into a model that holds an identifier.
HasModel(r) == r.decodeOk /\ r.req # NoState

AllCallsOk(r) == \A i \in 1..Len(r.calls) : r.calls[i].ok

\* The remote system holds no entity under the identifier of model m.
Unrecognized(m) ==
  /\ IsDecimalInteger(IdText(m))
  /\ \A c \in remote : Itoa(c.ID) # Itoa(Atoi(IdText(m)))

\* State st holds, for the identifier idText, a record with the attributes body.
HoldsAttrs(st, idText, body) ==
  \/ /\ st.form = "resource"
     /\ BodyOf(st.model) = body
  \/ /\ st.form = "list"
     /\ \E i \in 1..Len(st.Cafe) :
          Int64String(st.Cafe[i].ID) = idText /\ BodyOf(st.Cafe[i]) = body

----------------------------------------------------------------------------
\* C1: a Create whose plan decodes makes exactly one remote create call and
\* ends in one of two ways: the call succeeded, no diagnostic, and the state
\* holds the non-empty identifier the remote system assigned and the four
\* attributes it echoed; or the call failed, there is an error diagnostic and
\* no state was written.
C1_CreateOutcomes ==
  (last.op = "Create" /\ last.decodeOk) =>
    /\ Len(last.calls) = 1
    /\ last.calls[1].fn = "CreateCafe"
    /\ \/ /\ last.calls[1].ok
          /\ last.diags = <<>>
          /\ last.wrote
          /\ state.form = "resource"
          /\ Len(IdText(state.model)) > 0
          /\ IdText(state.model) = Itoa(last.calls[1].ret[1].ID)
          /\ BodyOf(state.model) = BodyOf(last.calls[1].ret[1])
       \/ /\ ~last.calls[1].ok
          /\ Len(last.diags) >= 1
          /\ ~last.wrote
          /\ state = NoState

C1_Witness ==
  /\ last.op = "Create" /\ last.wrote
  /\ state.form = "resource" /\ state.model.Name # 0

\* C2 (as claimed): a Read of a state whose identifier the remote system does
\* not hold, with no client call failing, ends with the "Cafe Not Found"
\* diagnostic alone and writes no state.
C2_ReadUnknownIsNotFound ==
  (last.op = "Read" /\ HasModel(last) /\ Unrecognized(last.req) /\ AllCallsOk(last)) =>
    /\ last.diags = <<Diag("Cafe Not Found", "No cafe found with the given ID")>>
    /\ ~last.wrote

\* C3 (as claimed): a Read that succeeds right after a successful Update
\* leaves a state that holds, for the updated identifier, the four attributes
\* of the plan given to Update.
C3_UpdateThenRead ==
  [][(/\ last.op = "Update" /\ last.wrote
      /\ last'.op = "Read" /\ last'.wrote)
       => HoldsAttrs(state', IdText(state.model), BodyOf(last.req))]_vars

\* C4 (as claimed): a Read right after a successful Delete, the state decoded
\* and no client call failing, ends with the "Cafe Not Found" diagnostic and
\* leaves the state as it was.
C4_DeleteThenRead ==
  [][(/\ last.op = "Delete" /\ last.diags = <<>>
      /\ last'.op = "Read" /\ last'.decodeOk /\ AllCallsOk(last'))
       => /\ last'.diags = <<Diag("Cafe Not Found", "No cafe found with the given ID")>>
          /\ ~last'.wrote
          /\ state' = state]_vars

\* C5 (as claimed): after a Configure with provider data of another type
\* there is exactly one diagnostic, the configuration error, and the client
\* handle is unset.
C5_WrongTypeLeavesUnset ==
  (last.op = "Configure" /\ last.req = WrongType) =>
    /\ Len(last.diags) = 1
    /\ last.diags[1].summary = "Unexpected Data Source Configure Type"
    /\ client = NoClient

\* C5 (amended): a Configure with provider data of another type emits exactly
\* one diagnostic, the configuration error, and leaves the client handle as
\* it was: unset if it was unset, the earlier handle otherwise.
C5_WrongTypeLeavesUnchanged ==
  [][(last'.op = "Configure" /\ last'.req = WrongType)
       => /\ Len(last'.diags) = 1
          /\ last'.diags[1].summary = "Unexpected Data Source Configure Type"
          /\ client' = client]_vars

C5_Witness ==
  last.op = "Configure" /\ last.req = WrongType /\ client \in Clients

\* A hook call took a failure path: the plan or state did not decode, the
\* identifier is no decimal integer, a client call failed, or Read's
\* by-identifier query returned no entity.
FailurePath(r) ==
  \/ ~r.decodeOk
  \/ draft = "A" /\ r.op \in {"Read", "Update", "Delete"} /\ ~IsDecimalInteger(r.req.ID)
  \/ ~AllCallsOk(r)
  \/ /\ r.op = "Read"
     /\ \E i \in 1..Len(r.calls) : r.calls[i].fn = "GetCafe" /\ r.calls[i].ret = <<>>

C7_UpdateReadsBack ==
  (last.op = "Update" /\ last.wrote) =>
    /\ Len(last.calls) = 2
    /\ last.calls[1].fn = "UpdateCafe"
    /\ last.calls[2].fn = "GetCafe"
    /\ last.calls[2].id = last.calls[1].id
    /\ BodyOf(state.model) = BodyOf(last.calls[2].ret[1])

\* C8 (as claimed): the request of Create's remote create call is one entity
\* with the plan's four attributes and no identifier.
C8_CreateRequestCarriesPlan ==
  (last.op = "Create" /\ last.calls # <<>>) =>
    /\ last.calls[1].fn = "CreateCafe"
    /\ last.calls[1].items = <<Cafe(0, BodyOf(last.req))>>

\* C9 (as claimed): a successful Read made one by-identifier query, for the
\* identifier the state held, and the state is now one resource record whose
\* identifier and four attributes are those of the remote entity with that
\* identifier.
C9_ReadOverwritesFromRemote ==
  (last.op = "Read" /\ last.wrote) =>
    /\ Len(last.calls) = 1
    /\ last.calls[1].fn = "GetCafe"
    /\ HasModel(last)
    /\ Atoi(last.calls[1].id) = Atoi(IdText(last.req))
    /\ state.form = "resource"
    /\ \E c \in remote :
         /\ c.ID = Atoi(IdText(last.req))
         /\ IdText(state.model) = Itoa(c.ID)
         /\ BodyOf(state.model) = BodyOf(c)

====
